---- MODULE Spec2Model ----
(***************************************************************************)
(* Model of the OpenShift SNO hub installer (go-installer): the iDRAC      *)
(* Redfish client, the enhanced boot-media sequence, the SSH / installer   *)
(* steps and the command dispatch of EnhancedApp.                          *)
(*                                                                         *)
(* One run of the binary executes one command.  The controller and the    *)
(* external processes are the environment: every request and every        *)
(* process invocation draws its outcome from the sets below.  The Go call *)
(* stack is the variable stack (last element = running function, value =  *)
(* its position); err is the error value handed back by the last return.  *)
(***************************************************************************)
EXTENDS Integers, Sequences, FiniteSets, TLC

VARIABLES
    cmd,        \* os.Args[1] of this run
    configFile, \* content of idrac_config.yaml
    cfg,        \* cfg of main: the configuration LoadConfig returned
    controller, \* which controller answers: any one, or the mock of the tests
    health,     \* local health of getStatus
    inputFile,  \* go-webcache: the file at inputPath
    etag,       \* go-webcache: etag of main
    modTime,    \* go-webcache: modTime of main
    request,    \* go-webcache: the request handled last
    response,   \* go-webcache: the answer to it
    stack,      \* call stack of positions
    err,        \* value returned by the call that returned last
    result,     \* what EnhancedApp.Run returned (NoResult while running)
    sent,       \* requests handed to the controller, in order
    procs,      \* external processes invoked, in order
    fs,         \* files and directories that exist
    cancelled,  \* ctx.Done() is closed
    powerState, \* local powerState of PowerOnSystem/PowerOffSystem/monitorInstallation
    polled,     \* local powerState of the WaitForSystemPower* loop
    attempt,    \* local attempt of the WaitForSystemPower* loop
    polls,      \* status reads issued by the running WaitForSystemPower* loop
    optIdx,     \* index of the range loop over virtualCDOptions
    powerOff    \* parameter powerOff of the running cleanup

vars == <<cmd, configFile, cfg, controller, health, inputFile, etag, modTime,
          request, response, stack, err, result, sent, procs, fs, cancelled,
          powerState, polled, attempt, polls, optIdx, powerOff>>

-----------------------------------------------------------------------------
(* Error values.  fmt.Errorf("...: %w", e) keeps e as the cause and adds *)
(* one line of context; errors built without %w carry no cause.           *)

Err(kind, code) == [kind |-> kind, code |-> code, ctxt |-> <<>>]
Nil == Err("nil", 0)
Wrap(msg, e) == [e EXCEPT !.ctxt = <<msg>> \o @]
NoResult == Err("running", 0)

-----------------------------------------------------------------------------
(* The controller as seen through http.Client.Do.                          *)

NetErr == 0
StatusOK == 200
StatusAccepted == 202
\* 204 and 500 stand for the answers the client has no case for.
Statuses == {StatusOK, StatusAccepted, 204, 500}

PowerStates == {"On", "Off", "PoweringOn"}

\* The mock controller of the client tests answers PATCH on the system
\* resource and POST on the Reset, EjectMedia and InsertMedia actions with
\* 200, and GET on the system resource with 200 and MockBody.
MockBody == [json |-> TRUE, hasId |-> FALSE, PowerState |-> "On", Health |-> "",
             StatusHealth |-> "OK"]

\* What a request can come back with: a transport error, or a status code.
\* A request made with a cancelled context never reaches the controller.
Outcomes ==
    IF cancelled THEN {NetErr}
    ELSE IF controller = "mock" THEN {StatusOK}
    ELSE Statuses \cup {NetErr}

\* Replies to GET /redfish/v1/Systems/System.Embedded.1: transport error,
\* a status, and for 200 a body that may or may not be JSON, may or may
\* not mention the resource id, and reports a power state.
NoBody == [json |-> FALSE, hasId |-> FALSE, PowerState |-> "", Health |-> "", StatusHealth |-> ""]
SysBodies ==
    { [json |-> FALSE, hasId |-> h, PowerState |-> "", Health |-> "", StatusHealth |-> ""] :
        h \in BOOLEAN } \cup
    { [json |-> TRUE, hasId |-> h, PowerState |-> p, Health |-> "", StatusHealth |-> "OK"] :
        h \in BOOLEAN, p \in PowerStates }
\* Variant: a status read does not look at the context.
SysRepliesWithoutContext ==
    { [status |-> NetErr, body |-> NoBody] }
    \cup { [status |-> s, body |-> NoBody] : s \in Statuses \ {StatusOK} }
    \cup { [status |-> StatusOK, body |-> b] : b \in SysBodies }

SysReplies ==
    IF cancelled THEN { [status |-> NetErr, body |-> NoBody] }
    ELSE IF controller = "mock" THEN { [status |-> StatusOK, body |-> MockBody] }
    ELSE { [status |-> NetErr, body |-> NoBody] }
         \cup { [status |-> s, body |-> NoBody] : s \in Statuses \ {StatusOK} }
         \cup { [status |-> StatusOK, body |-> b] : b \in SysBodies }

Req(method, target, arg, status) ==
    [method |-> method, target |-> target, arg |-> arg, status |-> status]
\* GET requests are logged without their reply.
Unrecorded == 0 - 1
GetReq(target) == Req("GET", target, "", Unrecorded)

\* makeRequest: the error it returns for an outcome of Do.
makeRequest(st) == IF st = NetErr THEN Err("transport", 0) ELSE Nil

-----------------------------------------------------------------------------
(* Call stack helpers.                                                     *)

Top == stack[Len(stack)]
At(l) == Len(stack) > 0 /\ Top = l
Goto(l) == [stack EXCEPT ![Len(stack)] = l]
Call(back, entry) == Append(Goto(back), entry)
Pop == SubSeq(stack, 1, Len(stack) - 1)
Running == Len(stack) > 0

\* Return e from the running function; the outermost return is the value of Run.
Return(e) ==
    /\ stack' = Pop
    /\ err' = e
    /\ result' = IF Len(stack) = 1 THEN e ELSE result

-----------------------------------------------------------------------------
(* Hardware controller client: the error each one-request operation       *)
(* returns for the outcome st of its request.                             *)

EjectVirtualMedia(st) ==
    IF makeRequest(st) # Nil THEN makeRequest(st)
    ELSE IF st # StatusOK /\ st # StatusAccepted THEN Err("status", st)
    ELSE Nil

InsertVirtualMedia(st) ==
    IF makeRequest(st) # Nil THEN makeRequest(st)
    ELSE IF st # StatusOK /\ st # StatusAccepted THEN Err("status", st)
    ELSE Nil

RestartSystem(st) ==
    IF makeRequest(st) # Nil THEN makeRequest(st)
    ELSE IF st # StatusOK /\ st # StatusAccepted THEN Err("status", st)
    ELSE Nil

\* Variant: 202 counts as success, as it does for eject, insert and reset.
SetVirtualCDBootAccepted(st) ==
    IF makeRequest(st) # Nil THEN makeRequest(st)
    ELSE IF st # StatusOK /\ st # StatusAccepted THEN Err("status", st)
    ELSE Nil

SetVirtualCDBoot(st) ==
    IF makeRequest(st) # Nil THEN makeRequest(st)
    ELSE IF st # StatusOK THEN Err("status", st)
    ELSE Nil

SetHDDBoot(st) ==
    IF makeRequest(st) # Nil THEN makeRequest(st)
    ELSE IF st # StatusOK THEN Err("status", st)
    ELSE Nil

\* json.Unmarshal into SystemInfo: every field is read from the top level
\* of the body; a field the body does not carry stays "".
NoInfo == [PowerState |-> "", Health |-> ""]
GetSystemInfo(reply) ==
    IF makeRequest(reply.status) # Nil
        THEN [err |-> makeRequest(reply.status), info |-> NoInfo]
    ELSE IF reply.status # StatusOK
        THEN [err |-> Err("status", reply.status), info |-> NoInfo]
    ELSE IF ~reply.body.json
        THEN [err |-> Wrap("failed to unmarshal system info", Err("parse", 0)), info |-> NoInfo]
    ELSE [err |-> Nil,
          info |-> [PowerState |-> reply.body.PowerState, Health |-> reply.body.Health]]

GetSystemPowerState(reply) ==
    IF GetSystemInfo(reply).err # Nil
        THEN [err |-> GetSystemInfo(reply).err, state |-> ""]
    ELSE [err |-> Nil, state |-> GetSystemInfo(reply).info.PowerState]

GetSystemHealth(reply) ==
    IF GetSystemInfo(reply).err # Nil
        THEN [err |-> GetSystemInfo(reply).err, health |-> ""]
    ELSE [err |-> Nil, health |-> GetSystemInfo(reply).info.Health]

CheckConnectivity(reply) ==
    IF makeRequest(reply.status) # Nil THEN makeRequest(reply.status)
    ELSE IF reply.status # StatusOK THEN Err("status", reply.status)
    ELSE IF ~reply.body.hasId THEN Err("invalid response from iDRAC", 0)
    ELSE Nil

SystemGet == GetReq("Systems/System.Embedded.1")
ResetPost(type, st) == Req("POST", "ComputerSystem.Reset", type, st)
BootPatch(target, st) == Req("PATCH", "Systems/System.Embedded.1", target, st)
EjectPost(st) == Req("POST", "VirtualMedia.EjectMedia", "", st)
InsertPost(st) == Req("POST", "VirtualMedia.InsertMedia", "isoURL", st)

-----------------------------------------------------------------------------
(* Power control.                                                          *)

maxAttempts == 30

\* Entry of WaitForSystemPowerOn / WaitForSystemPowerOff (attempt := 0).
EnterWait(fn) ==
    /\ stack' = Goto(fn)
    /\ attempt' = 0
    /\ polls' = 0
    /\ polled' = ""

\* Variant: the loop condition is attempt <= maxAttempts.
WaitHeadOffByOne(fn, timeoutMsg) ==
    /\ At(fn)
    /\ IF attempt <= maxAttempts
         THEN IF cancelled
                THEN Return(Err("context canceled", 0))
                ELSE stack' = Goto(fn \o ":read") /\ UNCHANGED <<err, result>>
         ELSE Return(Err(timeoutMsg, 0))
    /\ UNCHANGED <<cmd, inputFile, etag, modTime, request, response, configFile, cfg, controller, health, sent, procs, fs, cancelled, powerState, polled, attempt,
                   polls, optIdx, powerOff>>

\* Loop condition and the select on ctx.Done() at the head of an iteration.
WaitHead(fn, timeoutMsg) ==
    /\ At(fn)
    /\ IF attempt < maxAttempts
         THEN IF cancelled
                THEN Return(Err("context canceled", 0))
                ELSE stack' = Goto(fn \o ":read") /\ UNCHANGED <<err, result>>
         ELSE Return(Err(timeoutMsg, 0))
    /\ UNCHANGED <<cmd, inputFile, etag, modTime, request, response, configFile, cfg, controller, health, sent, procs, fs, cancelled, powerState, polled, attempt,
                   polls, optIdx, powerOff>>

\* Variant: a failed read ends the loop with its error.
WaitReadAbortOnError(fn, expected) ==
    /\ At(fn \o ":read")
    /\ \E reply \in SysReplies :
         LET r == GetSystemPowerState(reply) IN
         /\ sent' = Append(sent, SystemGet)
         /\ polls' = polls + 1
         /\ polled' = r.state
         /\ IF r.err # Nil
              THEN Return(r.err) /\ UNCHANGED attempt
              ELSE IF r.state = expected
              THEN Return(Nil) /\ UNCHANGED attempt
              ELSE /\ stack' = Goto(fn)
                   /\ attempt' = attempt + 1
                   /\ UNCHANGED <<err, result>>
    /\ UNCHANGED <<cmd, inputFile, etag, modTime, request, response, configFile, cfg,
                   controller, health, procs, fs, cancelled, powerState, optIdx, powerOff>>

\* GetSystemPowerState inside the loop, the comparison, the sleep and attempt++.
WaitRead(fn, expected) ==
    /\ At(fn \o ":read")
    /\ \E reply \in SysReplies :
         LET r == GetSystemPowerState(reply) IN
         /\ sent' = Append(sent, SystemGet)
         /\ polls' = polls + 1
         /\ polled' = r.state
         /\ IF r.err = Nil /\ r.state = expected
              THEN Return(Nil) /\ UNCHANGED attempt
              ELSE /\ stack' = Goto(fn)
                   /\ attempt' = attempt + 1
                   /\ UNCHANGED <<err, result>>
    /\ UNCHANGED <<cmd, inputFile, etag, modTime, request, response, configFile, cfg, controller, health, procs, fs, cancelled, powerState, optIdx, powerOff>>

WaitForSystemPowerOn ==
    \/ WaitHead("WaitForSystemPowerOn", "system failed to power on within expected time")
    \/ WaitRead("WaitForSystemPowerOn", "On")

WaitForSystemPowerOff ==
    \/ WaitHead("WaitForSystemPowerOff", "system failed to power off within expected time")
    \/ WaitRead("WaitForSystemPowerOff", "Off")

\* Variant: the check never skips the command.
PowerCheckNoSkip(fn, already) ==
    /\ At(fn)
    /\ \E reply \in SysReplies :
         LET r == GetSystemPowerState(reply) IN
         /\ sent' = Append(sent, SystemGet)
         /\ powerState' = r.state
         /\ IF r.err # Nil THEN Return(r.err)
            ELSE stack' = Goto(fn \o ":reset") /\ UNCHANGED <<err, result>>
    /\ UNCHANGED <<cmd, inputFile, etag, modTime, request, response, configFile, cfg, controller, health, procs, fs, cancelled, polled, attempt, polls, optIdx, powerOff>>

\* The state check at the start of PowerOnSystem / PowerOffSystem.
PowerCheck(fn, already) ==
    /\ At(fn)
    /\ \E reply \in SysReplies :
         LET r == GetSystemPowerState(reply) IN
         /\ sent' = Append(sent, SystemGet)
         /\ powerState' = r.state
         /\ IF r.err # Nil THEN Return(r.err)
            ELSE IF r.state = already THEN Return(Nil)
            ELSE stack' = Goto(fn \o ":reset") /\ UNCHANGED <<err, result>>
    /\ UNCHANGED <<cmd, inputFile, etag, modTime, request, response, configFile, cfg, controller, health, procs, fs, cancelled, polled, attempt, polls, optIdx, powerOff>>

\* Variant: the status of the Reset answer is not looked at.
PowerResetAnyStatus(fn, resetType, waitFn) ==
    /\ At(fn \o ":reset")
    /\ \E st \in Outcomes :
         /\ sent' = Append(sent, ResetPost(resetType, st))
         /\ IF makeRequest(st) # Nil
              THEN Return(makeRequest(st)) /\ UNCHANGED <<attempt, polls, polled>>
            ELSE EnterWait(waitFn) /\ UNCHANGED <<err, result>>
    /\ UNCHANGED <<cmd, inputFile, etag, modTime, request, response, configFile, cfg, controller, health, procs, fs, cancelled, powerState, optIdx, powerOff>>

\* The Reset request and the hand-over to the polling loop.
PowerReset(fn, resetType, waitFn) ==
    /\ At(fn \o ":reset")
    /\ \E st \in Outcomes :
         /\ sent' = Append(sent, ResetPost(resetType, st))
         /\ IF makeRequest(st) # Nil
              THEN Return(makeRequest(st)) /\ UNCHANGED <<attempt, polls, polled>>
            ELSE IF st # StatusOK /\ st # StatusAccepted
              THEN Return(Err("status", st)) /\ UNCHANGED <<attempt, polls, polled>>
            ELSE EnterWait(waitFn) /\ UNCHANGED <<err, result>>
    /\ UNCHANGED <<cmd, inputFile, etag, modTime, request, response, configFile, cfg, controller, health, procs, fs, cancelled, powerState, optIdx, powerOff>>

PowerOnSystem ==
    \/ PowerCheck("PowerOnSystem", "On")
    \/ PowerReset("PowerOnSystem", "On", "WaitForSystemPowerOn")

PowerOffSystem ==
    \/ PowerCheck("PowerOffSystem", "Off")
    \/ PowerReset("PowerOffSystem", "ForceOff", "WaitForSystemPowerOff")


-----------------------------------------------------------------------------
(* Enhanced boot-media sequence.                                           *)

\* Variant: the generic target first.
virtualCDOptionsGenericFirst == <<"Cd", "VirtualCd", "RemoteCd">>

virtualCDOptions == <<"RemoteCd", "VirtualCd", "Cd">>

\* GetVirtualMediaInfo at the start of SetVirtualCDBootEnhanced: its result
\* is only logged.
SetBootInfo ==
    /\ At("SetVirtualCDBootEnhanced")
    /\ sent' = Append(sent, GetReq("VirtualMedia/CD"))
    /\ optIdx' = 1
    /\ stack' = Goto("SetVirtualCDBootEnhanced:loop")
    /\ UNCHANGED <<cmd, inputFile, etag, modTime, request, response, configFile, cfg, controller, health, err, result, procs, fs, cancelled, powerState, polled,
                   attempt, polls, powerOff>>

\* Variant: the first refused attempt ends the operation, no fallback.
SetBootAttemptOnce ==
    /\ At("SetVirtualCDBootEnhanced:loop")
    /\ \E st \in Outcomes :
         /\ sent' = Append(sent, BootPatch(virtualCDOptions[optIdx], st))
         /\ IF makeRequest(st) = Nil /\ st = StatusOK
              THEN Return(Nil)
              ELSE Return(Err("failed to set boot device to Virtual CD/DVD with any supported option", 0))
    /\ UNCHANGED <<cmd, inputFile, etag, modTime, request, response, configFile, cfg,
                   controller, health, procs, fs, cancelled, powerState, polled, attempt,
                   polls, optIdx, powerOff>>

\* One iteration of the range loop, or the return after the loop.
SetBootAttempt ==
    /\ At("SetVirtualCDBootEnhanced:loop")
    /\ IF optIdx <= Len(virtualCDOptions)
         THEN \E st \in Outcomes :
                /\ sent' = Append(sent, BootPatch(virtualCDOptions[optIdx], st))
                /\ IF makeRequest(st) = Nil /\ st = StatusOK
                     THEN Return(Nil) /\ UNCHANGED optIdx
                     ELSE /\ optIdx' = optIdx + 1
                          /\ UNCHANGED <<stack, err, result>>
         ELSE /\ Return(Err("failed to set boot device to Virtual CD/DVD with any supported option", 0))
              /\ UNCHANGED <<sent, optIdx>>
    /\ UNCHANGED <<cmd, inputFile, etag, modTime, request, response, configFile, cfg, controller, health, procs, fs, cancelled, powerState, polled, attempt, polls, powerOff>>

SetVirtualCDBootEnhanced == SetBootInfo \/ SetBootAttempt

\* Variant: a failed eject ends the sequence.
ManageEjectFatal ==
    /\ At("ManageVirtualMediaBootProcess")
    /\ \E st \in Outcomes :
         /\ sent' = Append(sent, EjectPost(st))
         /\ IF EjectVirtualMedia(st) # Nil
              THEN Return(Wrap("failed to eject virtual media", EjectVirtualMedia(st)))
              ELSE stack' = Goto("ManageVirtualMediaBootProcess:insert")
                   /\ UNCHANGED <<err, result>>
    /\ UNCHANGED <<cmd, inputFile, etag, modTime, request, response, configFile, cfg,
                   controller, health, procs, fs, cancelled, powerState, polled, attempt,
                   polls, optIdx, powerOff>>

\* Step 1: eject, failure only logged.
ManageEject ==
    /\ At("ManageVirtualMediaBootProcess")
    /\ \E st \in Outcomes : sent' = Append(sent, EjectPost(st))
    /\ stack' = Goto("ManageVirtualMediaBootProcess:insert")
    /\ UNCHANGED <<cmd, inputFile, etag, modTime, request, response, configFile, cfg, controller, health, err, result, procs, fs, cancelled, powerState, polled,
                   attempt, polls, optIdx, powerOff>>

\* Variant: a failed insert is only logged, like the eject before it.
ManageInsertBestEffort ==
    /\ At("ManageVirtualMediaBootProcess:insert")
    /\ \E st \in Outcomes : sent' = Append(sent, InsertPost(st))
    /\ stack' = Call("ManageVirtualMediaBootProcess:setboot", "SetVirtualCDBootEnhanced")
    /\ UNCHANGED <<cmd, inputFile, etag, modTime, request, response, configFile, cfg, controller, health, err, result, procs, fs, cancelled, powerState, polled,
                   attempt, polls, optIdx, powerOff>>

\* Step 2: insert, failure returned.
ManageInsert ==
    /\ At("ManageVirtualMediaBootProcess:insert")
    /\ \E st \in Outcomes :
         /\ sent' = Append(sent, InsertPost(st))
         /\ IF InsertVirtualMedia(st) # Nil
              THEN Return(Wrap("failed to insert virtual media", InsertVirtualMedia(st)))
              ELSE /\ stack' = Call("ManageVirtualMediaBootProcess:setboot",
                                    "SetVirtualCDBootEnhanced")
                   /\ UNCHANGED <<err, result>>
    /\ UNCHANGED <<cmd, inputFile, etag, modTime, request, response, configFile, cfg, controller, health, procs, fs, cancelled, powerState, polled, attempt, polls,
                   optIdx, powerOff>>

\* Variant: the restart is sent whatever step 3 returned.
ManageSetBootBestEffort ==
    /\ At("ManageVirtualMediaBootProcess:setboot")
    /\ stack' = Goto("ManageVirtualMediaBootProcess:restart")
    /\ UNCHANGED <<cmd, inputFile, etag, modTime, request, response, configFile, cfg, controller, health, err, result, sent, procs, fs, cancelled, powerState, polled,
                   attempt, polls, optIdx, powerOff>>

\* Step 3 returned.
ManageSetBoot ==
    /\ At("ManageVirtualMediaBootProcess:setboot")
    /\ IF err # Nil
         THEN Return(Wrap("failed to set boot device to virtual CD/DVD", err))
         ELSE stack' = Goto("ManageVirtualMediaBootProcess:restart")
              /\ UNCHANGED <<err, result>>
    /\ UNCHANGED <<cmd, inputFile, etag, modTime, request, response, configFile, cfg, controller, health, sent, procs, fs, cancelled, powerState, polled, attempt,
                   polls, optIdx, powerOff>>

\* Variant: after an accepted restart the sequence waits for power-on.
ManageRestartThenWait ==
    /\ At("ManageVirtualMediaBootProcess:restart")
    /\ \E st \in Outcomes :
         /\ sent' = Append(sent, ResetPost("ForceRestart", st))
         /\ IF RestartSystem(st) # Nil
              THEN Return(Wrap("failed to restart system", RestartSystem(st)))
                   /\ UNCHANGED <<attempt, polls, polled>>
              ELSE EnterWait("WaitForSystemPowerOn") /\ UNCHANGED <<err, result>>
    /\ UNCHANGED <<cmd, inputFile, etag, modTime, request, response, configFile, cfg, controller, health, procs, fs, cancelled, powerState, optIdx, powerOff>>

\* Step 4: forced restart, then the sequence returns.
ManageRestart ==
    /\ At("ManageVirtualMediaBootProcess:restart")
    /\ \E st \in Outcomes :
         /\ sent' = Append(sent, ResetPost("ForceRestart", st))
         /\ IF RestartSystem(st) # Nil
              THEN Return(Wrap("failed to restart system", RestartSystem(st)))
              ELSE Return(Nil)
    /\ UNCHANGED <<cmd, inputFile, etag, modTime, request, response, configFile, cfg, controller, health, procs, fs, cancelled, powerState, polled, attempt, polls,
                   optIdx, powerOff>>

ManageVirtualMediaBootProcess ==
    ManageEject \/ ManageInsert \/ ManageSetBoot \/ ManageRestart

-----------------------------------------------------------------------------
(* EnhancedApp.cleanup.                                                    *)

\* Variant: a failed eject ends cleanup with its error.
CleanupEjectFatal ==
    /\ At("cleanup")
    /\ \E st \in Outcomes :
         /\ sent' = Append(sent, EjectPost(st))
         /\ IF EjectVirtualMedia(st) # Nil
              THEN Return(Wrap("failed to eject virtual media", EjectVirtualMedia(st)))
              ELSE stack' = Goto("cleanup:hdd") /\ UNCHANGED <<err, result>>
    /\ UNCHANGED <<cmd, inputFile, etag, modTime, request, response, configFile, cfg, controller, health, procs, fs, cancelled, powerState, polled, attempt, polls,
                   optIdx, powerOff>>

\* Step 1: eject, failure only logged.
CleanupEject ==
    /\ At("cleanup")
    /\ \E st \in Outcomes : sent' = Append(sent, EjectPost(st))
    /\ stack' = Goto("cleanup:hdd")
    /\ UNCHANGED <<cmd, inputFile, etag, modTime, request, response, configFile, cfg, controller, health, err, result, procs, fs, cancelled, powerState, polled,
                   attempt, polls, optIdx, powerOff>>

CleanupHdd ==
    /\ At("cleanup:hdd")
    /\ \E st \in Outcomes : sent' = Append(sent, BootPatch("Hdd", st))
    /\ IF powerOff
         THEN stack' = Call("cleanup:poweroff", "PowerOffSystem")
              /\ UNCHANGED <<err, result>>
         ELSE Return(Nil)
    /\ UNCHANGED <<cmd, inputFile, etag, modTime, request, response, configFile, cfg, controller, health, procs, fs, cancelled, powerState, polled, attempt, polls,
                   optIdx, powerOff>>

\* PowerOffSystem returned: its error is only logged.
CleanupPowerOff ==
    /\ At("cleanup:poweroff")
    /\ Return(Nil)
    /\ UNCHANGED <<cmd, inputFile, etag, modTime, request, response, configFile, cfg, controller, health, sent, procs, fs, cancelled, powerState, polled, attempt,
                   polls, optIdx, powerOff>>

cleanup == CleanupEject \/ CleanupHdd \/ CleanupPowerOff


-----------------------------------------------------------------------------
(* Files, directories and external processes.                              *)

KeyPriv == "~/.ssh/id_ed25519"
KeyPub == "~/.ssh/id_ed25519.pub"
AuthFile == "./config.json"
SrcOpenshift == "./abi-master-0/openshift"
SrcAgentConfig == "./abi-master-0/agent-config.yaml"
SrcInstallConfig == "./abi-master-0/install-config.yaml"
InstallerPath == "./openshift-install"
WorkDir == "./workdir"
WorkOpenshift == "./workdir/openshift"
WorkAgentConfig == "./workdir/agent-config.yaml"
WorkInstallConfig == "./workdir/install-config.yaml"
ISOFilePath == "./workdir/agent.x86_64.iso"
WorkStale == "./workdir/.openshift_install_state.json"

Inputs == {KeyPriv, KeyPub, AuthFile, SrcOpenshift, SrcAgentConfig, SrcInstallConfig, InstallerPath}
WorkContents == {WorkOpenshift, WorkAgentConfig, WorkInstallConfig, ISOFilePath, WorkStale}

\* What a previous run may have left behind.
InitialWork == { {}, {WorkDir}, {WorkDir, WorkStale},
                 {WorkDir, WorkStale, ISOFilePath, WorkOpenshift,
                  WorkAgentConfig, WorkInstallConfig} }

\* Exit status of an external process (TRUE = exit 0).  exec.CommandContext
\* does not start a process once the context is cancelled; exec.Command
\* does not look at the context.
ProcOutcomes(withCtx) == IF withCtx /\ cancelled THEN {FALSE} ELSE BOOLEAN
Proc(name, ok) == [name |-> name, ok |-> ok]
Done(e, f, ps) == [err |-> e, fs |-> f, procs |-> ps]

generateSSHKey(f, ok) ==
    IF ~ok THEN Done(Wrap("failed to generate SSH key", Err("exec", 0)), f,
                     <<Proc("ssh-keygen", ok)>>)
    ELSE Done(Nil, f \cup {KeyPriv, KeyPub}, <<Proc("ssh-keygen", ok)>>)

CheckSSHKey(f, ok) ==
    IF KeyPriv \notin f THEN generateSSHKey(f, ok) ELSE Done(Nil, f, <<>>)

SetupSSHKey(f, ok) ==
    IF KeyPub \notin f THEN Done(Err("SSH public key not found", 0), f, <<>>)
    ELSE IF ~ok THEN Done(Wrap("failed to copy SSH key", Err("exec", 0)), f,
                          <<Proc("ssh-copy-id", ok)>>)
    ELSE Done(Nil, f, <<Proc("ssh-copy-id", ok)>>)

\* infoOK: oc adm release info exits 0; pullFrom: its output has a
\* "Pull From:" line; extractOK: oc adm release extract exits 0.
ExtractInstaller(f, infoOK, pullFrom, extractOK) ==
    IF AuthFile \notin f THEN Done(Err("registry auth file not found", 0), f, <<>>)
    ELSE IF ~infoOK
        THEN Done(Wrap("failed to get release digest",
                       Wrap("failed to get release info", Err("exec", 0))),
                  f, <<Proc("oc adm release info", FALSE)>>)
    ELSE IF ~pullFrom
        THEN Done(Wrap("failed to get release digest",
                       Err("could not find release digest in output", 0)),
                  f, <<Proc("oc adm release info", TRUE)>>)
    ELSE IF ~extractOK
        THEN Done(Wrap("failed to extract installer", Err("exec", 0)), f,
                  <<Proc("oc adm release info", TRUE), Proc("oc adm release extract", FALSE)>>)
    ELSE Done(Nil, f \cup {InstallerPath},
              <<Proc("oc adm release info", TRUE), Proc("oc adm release extract", TRUE)>>)

\* os.RemoveAll of the work directory when it exists.
\* Variant: an existing work directory is kept.
cleanWorkDirKeep(f, rmOK) == Done(Nil, f, <<>>)

cleanWorkDir(f, rmOK) ==
    IF WorkDir \notin f THEN Done(Nil, f, <<>>)
    ELSE IF ~rmOK THEN Done(Err("os", 0), f, <<>>)
    ELSE Done(Nil, f \ ({WorkDir} \cup WorkContents), <<>>)

copyOpenshiftDir(f, ok) ==
    IF SrcOpenshift \notin f
        THEN Done(Err("source openshift directory not found", 0), f, <<>>)
    ELSE IF ~ok
        THEN Done(Err("failed to copy openshift directory", 0), f, <<Proc("cp -r openshift", ok)>>)
    ELSE Done(Nil, f \cup {WorkOpenshift}, <<Proc("cp -r openshift", ok)>>)

\* Variant: a missing source file is skipped.
copyConfigFileSkipMissing(f, src, dst, ok) ==
    IF src \notin f THEN Done(Nil, f, <<>>)
    ELSE IF ~ok THEN Done(Err("failed to copy", 0), f, <<Proc("cp", ok)>>)
    ELSE Done(Nil, f \cup {dst}, <<Proc("cp", ok)>>)

\* One file of the loop of copyConfigFiles.
copyConfigFile(f, src, dst, ok) ==
    IF src \notin f THEN Done(Err("configuration file not found", 0), f, <<>>)
    ELSE IF ~ok THEN Done(Err("failed to copy", 0), f, <<Proc("cp", ok)>>)
    ELSE Done(Nil, f \cup {dst}, <<Proc("cp", ok)>>)

copyConfigFiles(f, ok1, ok2) ==
    LET a == copyConfigFile(f, SrcAgentConfig, WorkAgentConfig, ok1) IN
    IF a.err # Nil THEN a
    ELSE LET b == copyConfigFile(a.fs, SrcInstallConfig, WorkInstallConfig, ok2) IN
         Done(b.err, b.fs, a.procs \o b.procs)

PrepareWorkDir(f, rmOK, mkOK, cpDir, cp1, cp2) ==
    LET c == cleanWorkDir(f, rmOK) IN
    IF c.err # Nil THEN Done(Wrap("failed to clean work directory", c.err), c.fs, <<>>)
    ELSE IF ~mkOK THEN Done(Wrap("failed to create work directory", Err("os", 0)), c.fs, <<>>)
    ELSE LET d == copyOpenshiftDir(c.fs \cup {WorkDir}, cpDir) IN
         IF d.err # Nil
            THEN Done(Wrap("failed to copy openshift directory", d.err), d.fs, d.procs)
         ELSE LET e == copyConfigFiles(d.fs, cp1, cp2) IN
              IF e.err # Nil
                 THEN Done(Wrap("failed to copy configuration files", e.err), e.fs,
                           d.procs \o e.procs)
              ELSE Done(Nil, e.fs, d.procs \o e.procs)

\* chmodOK: os.Chmod succeeds; ok: the installer exits 0; iso: it left
\* agent.x86_64.iso in the work directory.
CreateAgentImage(f, chmodOK, ok, iso) ==
    IF InstallerPath \notin f THEN Done(Err("openshift-install not found", 0), f, <<>>)
    ELSE IF ~chmodOK THEN Done(Wrap("failed to make installer executable", Err("os", 0)), f, <<>>)
    ELSE IF ~ok THEN Done(Wrap("failed to create agent image", Err("exec", 0)), f,
                          <<Proc("agent create image", ok)>>)
    ELSE Done(Nil, IF iso THEN f \cup {ISOFilePath} ELSE f, <<Proc("agent create image", ok)>>)

CopyFileToRemote(f, localPath, ok) ==
    IF localPath \notin f THEN Done(Err("local file not found", 0), f, <<>>)
    ELSE IF ~ok THEN Done(Wrap("failed to copy file", Err("exec", 0)), f, <<Proc("scp", ok)>>)
    ELSE Done(Nil, f, <<Proc("scp", ok)>>)

CopyISOToRemote(f, isoPath, ok) ==
    IF isoPath \notin f THEN Done(Err("ISO file not found", 0), f, <<>>)
    ELSE CopyFileToRemote(f, isoPath, ok)

WaitForInstallComplete(f, ok) ==
    IF ~ok THEN Done(Wrap("installation wait failed", Err("exec", 0)), f,
                     <<Proc("agent wait-for install-complete", ok)>>)
    ELSE Done(Nil, f, <<Proc("agent wait-for install-complete", ok)>>)


-----------------------------------------------------------------------------
(* EnhancedApp.runInstall and monitorInstallation.                         *)

\* Variant: a failing step is only logged and the next one runs.
InstallStepKeepGoing(r, msg, next) ==
    /\ fs' = r.fs
    /\ procs' = procs \o r.procs
    /\ stack' = next
    /\ UNCHANGED <<cmd, inputFile, etag, modTime, request, response, configFile, cfg, controller, health, err, result, sent, cancelled, powerState, polled, attempt,
                   polls, optIdx, powerOff>>

\* A step of runInstall that runs external processes: apply its outcome r,
\* return the wrapped error or move on to the next position.
InstallStep(r, msg, next) ==
    /\ fs' = r.fs
    /\ procs' = procs \o r.procs
    /\ IF r.err # Nil
         THEN Return(Wrap(msg, r.err))
         ELSE stack' = next /\ UNCHANGED <<err, result>>
    /\ UNCHANGED <<cmd, inputFile, etag, modTime, request, response, configFile, cfg, controller, health, sent, cancelled, powerState, polled, attempt, polls, optIdx, powerOff>>

RunInstallConnectivity ==
    /\ At("runInstall")
    /\ \E reply \in SysReplies :
         /\ sent' = Append(sent, SystemGet)
         /\ IF CheckConnectivity(reply) # Nil
              THEN Return(Wrap("iDRAC connectivity check failed", CheckConnectivity(reply)))
              ELSE stack' = Goto("runInstall:info") /\ UNCHANGED <<err, result>>
    /\ UNCHANGED <<cmd, inputFile, etag, modTime, request, response, configFile, cfg, controller, health, procs, fs, cancelled, powerState, polled, attempt, polls,
                   optIdx, powerOff>>

\* GetSystemInfo and GetSystemHealth: failures are only logged.
RunInstallInfo ==
    /\ At("runInstall:info")
    /\ sent' = sent \o <<SystemGet, SystemGet>>
    /\ stack' = Goto("runInstall:checkkey")
    /\ UNCHANGED <<cmd, inputFile, etag, modTime, request, response, configFile, cfg, controller, health, err, result, procs, fs, cancelled, powerState, polled,
                   attempt, polls, optIdx, powerOff>>

RunInstallCheckSSHKey ==
    /\ At("runInstall:checkkey")
    /\ \E ok \in ProcOutcomes(TRUE) :
         InstallStep(CheckSSHKey(fs, ok), "failed to check SSH key",
                     Goto("runInstall:setupkey"))

RunInstallSetupSSHKey ==
    /\ At("runInstall:setupkey")
    /\ \E ok \in ProcOutcomes(TRUE) :
         InstallStep(SetupSSHKey(fs, ok), "failed to setup SSH key",
                     Goto("runInstall:extract"))

RunInstallExtract ==
    /\ At("runInstall:extract")
    /\ \E infoOK \in ProcOutcomes(TRUE), pullFrom \in BOOLEAN, extractOK \in ProcOutcomes(TRUE) :
         InstallStep(ExtractInstaller(fs, infoOK, pullFrom, extractOK),
                     "failed to extract installer", Goto("runInstall:prepare"))

RunInstallPrepare ==
    /\ At("runInstall:prepare")
    /\ \E rmOK \in BOOLEAN, mkOK \in BOOLEAN, cpDir \in ProcOutcomes(FALSE),
          cp1 \in ProcOutcomes(FALSE), cp2 \in ProcOutcomes(FALSE) :
         InstallStep(PrepareWorkDir(fs, rmOK, mkOK, cpDir, cp1, cp2),
                     "failed to prepare work directory", Goto("runInstall:create"))

RunInstallCreate ==
    /\ At("runInstall:create")
    /\ \E chmodOK \in BOOLEAN, ok \in ProcOutcomes(TRUE), iso \in BOOLEAN :
         InstallStep(CreateAgentImage(fs, chmodOK, ok, iso),
                     "failed to create agent image", Goto("runInstall:copyiso"))

RunInstallCopyISO ==
    /\ At("runInstall:copyiso")
    /\ \E ok \in ProcOutcomes(TRUE) :
         InstallStep(CopyISOToRemote(fs, ISOFilePath, ok), "failed to copy ISO to remote",
                     Call("runInstall:managed", "ManageVirtualMediaBootProcess"))

\* Variant: a failed boot-media sequence is rolled back with an eject.
RunInstallManagedRollback ==
    /\ At("runInstall:managed")
    /\ IF err # Nil
         THEN /\ \E st \in Outcomes : sent' = Append(sent, EjectPost(st))
              /\ Return(Wrap("failed to manage virtual media boot process", err))
         ELSE /\ stack' = Call("runInstall:monitored", "monitorInstallation")
              /\ UNCHANGED <<err, result, sent>>
    /\ UNCHANGED <<cmd, inputFile, etag, modTime, request, response, configFile, cfg,
                   controller, health, procs, fs, cancelled, powerState, polled, attempt,
                   polls, optIdx, powerOff>>

\* manageVirtualMediaBootProcess returned.
RunInstallManaged ==
    /\ At("runInstall:managed")
    /\ IF err # Nil
         THEN Return(Wrap("failed to manage virtual media boot process", err))
         ELSE stack' = Call("runInstall:monitored", "monitorInstallation")
              /\ UNCHANGED <<err, result>>
    /\ UNCHANGED <<cmd, inputFile, etag, modTime, request, response, configFile, cfg, controller, health, sent, procs, fs, cancelled, powerState, polled, attempt,
                   polls, optIdx, powerOff>>

\* Variant: an error of monitorInstallation is only logged.
RunInstallMonitoredBestEffort ==
    /\ At("runInstall:monitored")
    /\ stack' = Call("runInstall:cleaned", "cleanup")
    /\ powerOff' = FALSE
    /\ UNCHANGED <<cmd, inputFile, etag, modTime, request, response, configFile, cfg, controller, health, err, result, sent, procs, fs, cancelled, powerState, polled,
                   attempt, polls, optIdx>>

\* monitorInstallation returned.
RunInstallMonitored ==
    /\ At("runInstall:monitored")
    /\ IF err # Nil
         THEN Return(Wrap("failed to monitor installation", err)) /\ UNCHANGED powerOff
         ELSE /\ stack' = Call("runInstall:cleaned", "cleanup")
              /\ powerOff' = FALSE
              /\ UNCHANGED <<err, result>>
    /\ UNCHANGED <<cmd, inputFile, etag, modTime, request, response, configFile, cfg, controller, health, sent, procs, fs, cancelled, powerState, polled, attempt,
                   polls, optIdx>>

\* cleanup returned: an error would only be logged.
RunInstallCleaned ==
    /\ At("runInstall:cleaned")
    /\ Return(Nil)
    /\ UNCHANGED <<cmd, inputFile, etag, modTime, request, response, configFile, cfg, controller, health, sent, procs, fs, cancelled, powerState, polled, attempt,
                   polls, optIdx, powerOff>>

runInstall ==
    \/ RunInstallConnectivity \/ RunInstallInfo \/ RunInstallCheckSSHKey
    \/ RunInstallSetupSSHKey \/ RunInstallExtract \/ RunInstallPrepare
    \/ RunInstallCreate \/ RunInstallCopyISO \/ RunInstallManaged
    \/ RunInstallMonitored \/ RunInstallCleaned

\* Variant: the wait is started whatever state was read.
MonitorReadAlwaysWait ==
    /\ At("monitorInstallation")
    /\ \E reply \in SysReplies :
         LET r == GetSystemPowerState(reply) IN
         /\ sent' = Append(sent, SystemGet)
         /\ powerState' = r.state
         /\ IF r.err # Nil THEN Return(Nil)
            ELSE stack' = Goto("monitorInstallation:wait") /\ UNCHANGED <<err, result>>
    /\ UNCHANGED <<cmd, inputFile, etag, modTime, request, response, configFile, cfg, controller, health, procs, fs, cancelled, polled, attempt, polls, optIdx, powerOff>>

\* The power-state read of monitorInstallation.
MonitorRead ==
    /\ At("monitorInstallation")
    /\ \E reply \in SysReplies :
         LET r == GetSystemPowerState(reply) IN
         /\ sent' = Append(sent, SystemGet)
         /\ powerState' = r.state
         /\ IF r.err # Nil THEN Return(Nil)
            ELSE IF r.state = "On"
              THEN stack' = Goto("monitorInstallation:wait") /\ UNCHANGED <<err, result>>
            ELSE Return(Nil)
    /\ UNCHANGED <<cmd, inputFile, etag, modTime, request, response, configFile, cfg, controller, health, procs, fs, cancelled, polled, attempt, polls, optIdx, powerOff>>

\* return a.installer.WaitForInstallComplete(ctx)
MonitorWait ==
    /\ At("monitorInstallation:wait")
    /\ \E ok \in ProcOutcomes(TRUE) :
         LET r == WaitForInstallComplete(fs, ok) IN
         /\ procs' = procs \o r.procs
         /\ Return(r.err)
    /\ UNCHANGED <<cmd, inputFile, etag, modTime, request, response, configFile, cfg, controller, health, sent, fs, cancelled, powerState, polled, attempt, polls,
                   optIdx, powerOff>>

monitorInstallation == MonitorRead \/ MonitorWait

-----------------------------------------------------------------------------
(* Commands that are one client operation.                                 *)

OneRequest(fn, req(_), op(_)) ==
    /\ At(fn)
    /\ \E st \in Outcomes :
         /\ sent' = Append(sent, req(st))
         /\ Return(op(st))
    /\ UNCHANGED <<cmd, inputFile, etag, modTime, request, response, configFile, cfg, controller, health, procs, fs, cancelled, powerState, polled, attempt, polls,
                   optIdx, powerOff>>

HddPatch(st) == BootPatch("Hdd", st)
CdPatch(st) == BootPatch("Cd", st)
RestartPost(st) == ResetPost("ForceRestart", st)

ejectMedia == OneRequest("EjectVirtualMedia", EjectPost, EjectVirtualMedia)
insertMedia == OneRequest("InsertVirtualMedia", InsertPost, InsertVirtualMedia)
setBootCD == OneRequest("SetVirtualCDBoot", CdPatch, SetVirtualCDBoot)
setBootHDD == OneRequest("SetHDDBoot", HddPatch, SetHDDBoot)
restart == OneRequest("RestartSystem", RestartPost, RestartSystem)

-----------------------------------------------------------------------------
(* EnhancedApp.getStatus: the power state, then the health.                *)

GetStatusPower ==
    /\ At("getStatus")
    /\ \E reply \in SysReplies :
         /\ sent' = Append(sent, SystemGet)
         /\ IF GetSystemPowerState(reply).err # Nil
              THEN /\ Return(Wrap("failed to get power state", GetSystemPowerState(reply).err))
                   /\ UNCHANGED powerState
              ELSE /\ powerState' = GetSystemPowerState(reply).state
                   /\ stack' = Goto("getStatus:health")
                   /\ UNCHANGED <<err, result>>
    /\ UNCHANGED <<cmd, inputFile, etag, modTime, request, response, configFile, cfg, controller, health, procs, fs, cancelled,
                   polled, attempt, polls, optIdx, powerOff>>

GetStatusHealth ==
    /\ At("getStatus:health")
    /\ \E reply \in SysReplies :
         /\ sent' = Append(sent, SystemGet)
         /\ IF GetSystemHealth(reply).err # Nil
              THEN /\ Return(Wrap("failed to get system health", GetSystemHealth(reply).err))
                   /\ UNCHANGED health
              ELSE /\ health' = GetSystemHealth(reply).health
                   /\ Return(Nil)
    /\ UNCHANGED <<cmd, inputFile, etag, modTime, request, response, configFile, cfg, controller, procs, fs, cancelled, powerState,
                   polled, attempt, polls, optIdx, powerOff>>

getStatus == GetStatusPower \/ GetStatusHealth

-----------------------------------------------------------------------------
(* Configuration: idrac_config.yaml, LoadConfig and Validate.              *)

DefaultConfig ==
    [ip |-> "192.168.1.228", username |-> "root", password |-> "",
     version |-> "4.16.45", cluster_name |-> "sno-hub",
     user |-> "rock", host |-> "192.168.1.21", path |-> "/apps/webcache/OSs/"]

\* The configurations a file can hold: every field is empty or filled in.
Configs ==
    [ip : {"", DefaultConfig.ip}, username : {"", DefaultConfig.username},
     password : {"", "your-password"}, version : {"", DefaultConfig.version},
     cluster_name : {"", DefaultConfig.cluster_name}, user : {"", DefaultConfig.user},
     host : {"", DefaultConfig.host}, path : {"", DefaultConfig.path}]

\* No file, a file that is not YAML, and the nil *Config.
NoFile == [file |-> "absent"]
Garbage == [file |-> "not yaml"]
NoConfig == [config |-> "nil"]

\* Variant: remote.user is not looked at.
ValidateWithoutUser(c) ==
    IF c.ip = "" THEN Err("idrac.ip is required", 0)
    ELSE IF c.username = "" THEN Err("idrac.username is required", 0)
    ELSE IF c.password = "" THEN Err("idrac.password is required", 0)
    ELSE IF c.version = "" THEN Err("openshift.version is required", 0)
    ELSE IF c.cluster_name = "" THEN Err("openshift.cluster_name is required", 0)
    ELSE IF c.host = "" THEN Err("remote.host is required", 0)
    ELSE Nil

Validate(c) ==
    IF c.ip = "" THEN Err("idrac.ip is required", 0)
    ELSE IF c.username = "" THEN Err("idrac.username is required", 0)
    ELSE IF c.password = "" THEN Err("idrac.password is required", 0)
    ELSE IF c.version = "" THEN Err("openshift.version is required", 0)
    ELSE IF c.cluster_name = "" THEN Err("openshift.cluster_name is required", 0)
    ELSE IF c.host = "" THEN Err("remote.host is required", 0)
    ELSE IF c.user = "" THEN Err("remote.user is required", 0)
    ELSE Nil

\* LoadConfig on the file content data: the error and the configuration
\* it returns.
ReadConfig(data) ==
    IF data = Garbage
        THEN [err |-> Wrap("failed to unmarshal config", Err("yaml", 0)), config |-> NoConfig]
    ELSE IF Validate(data) # Nil
        THEN [err |-> Wrap("configuration validation failed", Validate(data)),
              config |-> NoConfig]
    ELSE [err |-> Nil, config |-> data]

\* main up to application.Run: LoadConfig writes the default file when
\* there is none, reads and validates it; log.Fatalf ends the process on
\* an error, otherwise Run is called.
LoadConfig ==
    /\ At("main")
    /\ \E written \in BOOLEAN :
         /\ configFile' = IF configFile = NoFile /\ written THEN DefaultConfig
                           ELSE configFile
         /\ IF configFile' = NoFile
              THEN /\ Return(Wrap("failed to create default config file",
                                   Wrap("failed to write config file", Err("write", 0))))
                   /\ UNCHANGED cfg
              ELSE IF ReadConfig(configFile').err # Nil
              THEN Return(ReadConfig(configFile').err) /\ UNCHANGED cfg
              ELSE /\ cfg' = ReadConfig(configFile').config
                   /\ stack' = Goto("Run")
                   /\ UNCHANGED <<err, result>>
    /\ UNCHANGED <<cmd, inputFile, etag, modTime, request, response, controller, health,
                   sent, procs, fs, cancelled, powerState, polled, attempt, polls,
                   optIdx, powerOff>>

-----------------------------------------------------------------------------
(* go-webcache: the file server for agent.x86_64.iso.                      *)

MaxTime == 2
\* The zero time.Time, also an absent If-Modified-Since.
NoTime == 0
Times == 1..MaxTime
Contents == {"iso-1", "iso-2"}
NoInput == [exists |-> FALSE, content |-> "", modTime |-> NoTime]
Files == [exists : {TRUE}, content : Contents, modTime : Times]

\* md5 of a content, printed with %x.
md5(c) ==
    CASE c = "iso-1" -> "9dd0f16b0b34f7c6e85828d84a3b4ceb"
      [] c = "iso-2" -> "97dfc1e2654cf171433e5494451a8ec9"

\* calculateETag: the quoted checksum of the content.
calculateETag(f) == "\"" \o md5(f.content) \o "\""

\* If-None-Match values (absent, an entity tag, its weak form, *) and
\* If-Modified-Since values (absent or a time) of a GET request.
EntityTags == { calculateETag(f) : f \in Files }
Requests ==
    [inm : {"", "*"} \cup EntityTags \cup { "W/" \o t : t \in EntityTags },
     ims : {NoTime} \cup Times]
NoRequest == [inm |-> "", ims |-> MaxTime + 1]

Answer(status, body, tag, lastModified) ==
    [status |-> status, body |-> body, etag |-> tag, lastModified |-> lastModified]
NoResponse == Answer(0, "", "", NoTime)

\* http.ServeContent for a GET request, with the ETag header already set to
\* tag: If-None-Match is compared weakly and decides alone when present;
\* otherwise If-Modified-Since is compared with the modification time.  A
\* 304 keeps the ETag header and drops Last-Modified.
ServeContent(req, tag, mt, f) ==
    IF req.inm # ""
      THEN IF req.inm = "*" \/ req.inm = tag \/ req.inm = "W/" \o tag
             THEN Answer(304, "", tag, NoTime)
             ELSE Answer(200, f.content, tag, mt)
    ELSE IF req.ims # NoTime /\ mt <= req.ims
      THEN Answer(304, "", tag, NoTime)
    ELSE Answer(200, f.content, tag, mt)

\* Variant: the file is opened before If-None-Match is looked at.
serveISOOpenFirst(req, tag, mt, f) ==
    IF ~f.exists THEN Answer(404, "File not found", "", NoTime)
    ELSE IF req.inm # "" /\ req.inm = tag THEN Answer(304, "", "", NoTime)
    ELSE ServeContent(req, tag, mt, f)

\* The handler of /agent.x86_64.iso.
serveISO(req, tag, mt, f) ==
    IF req.inm # "" /\ req.inm = tag THEN Answer(304, "", "", NoTime)
    ELSE IF ~f.exists THEN Answer(404, "File not found", "", NoTime)
    ELSE ServeContent(req, tag, mt, f)

\* main of go-webcache up to ListenAndServe.
ServerStart ==
    /\ At("webcache")
    /\ IF ~inputFile.exists
         THEN Return(Err("Failed to calculate ETag", 0)) /\ UNCHANGED <<etag, modTime>>
         ELSE /\ etag' = calculateETag(inputFile)
              /\ modTime' = inputFile.modTime
              /\ stack' = Goto("ListenAndServe")
              /\ UNCHANGED <<err, result>>
    /\ UNCHANGED <<cmd, inputFile, request, response, configFile, cfg, controller, health,
                   sent, procs, fs, cancelled, powerState, polled, attempt, polls,
                   optIdx, powerOff>>

\* One request served.
Handle ==
    /\ At("ListenAndServe")
    /\ \E req \in Requests :
         /\ request' = req
         /\ response' = serveISO(req, etag, modTime, inputFile)
    /\ UNCHANGED <<cmd, inputFile, etag, modTime, configFile, cfg, controller, health,
                   stack, err, result, sent, procs, fs, cancelled, powerState, polled,
                   attempt, polls, optIdx, powerOff>>

\* The image is written again (a later time, any content) while the
\* server runs.
Rewrite ==
    /\ At("ListenAndServe")
    /\ \E f \in Files :
         /\ f.modTime > inputFile.modTime
         /\ inputFile' = f
    /\ UNCHANGED <<cmd, etag, modTime, request, response, configFile, cfg, controller,
                   health, stack, err, result, sent, procs, fs, cancelled, powerState,
                   polled, attempt, polls, optIdx, powerOff>>

\* The image is removed while the server runs.
Remove ==
    /\ At("ListenAndServe")
    /\ inputFile.exists
    /\ inputFile' = [inputFile EXCEPT !.exists = FALSE]
    /\ UNCHANGED <<cmd, etag, modTime, request, response, configFile, cfg, controller,
                   health, stack, err, result, sent, procs, fs, cancelled, powerState,
                   polled, attempt, polls, optIdx, powerOff>>

InitServer ==
    /\ cmd = "webcache"
    /\ inputFile \in Files \cup {NoInput}
    /\ etag = ""
    /\ modTime = NoTime
    /\ request = NoRequest
    /\ response = NoResponse
    /\ configFile = NoFile
    /\ cfg = NoConfig
    /\ controller = "any"
    /\ health = ""
    /\ fs = {}
    /\ stack = <<"webcache">>
    /\ err = Nil
    /\ result = NoResult
    /\ sent = <<>>
    /\ procs = <<>>
    /\ cancelled = FALSE
    /\ powerState = ""
    /\ polled = ""
    /\ attempt = 0
    /\ polls = 0
    /\ optIdx = 1
    /\ powerOff = FALSE

NextServer == ServerStart \/ Handle \/ Rewrite \/ Remove

SpecServer == InitServer /\ [][NextServer]_vars

-----------------------------------------------------------------------------
(* Command dispatch, cancellation, and the specification.                  *)

Commands == {"install", "power-on", "power-off", "eject-media", "insert-media",
             "set-boot-cd", "set-boot-cd-enhanced", "manage-virtual-boot",
             "set-boot-hdd", "restart", "cleanup", "cleanup poweroff", "status"}

Handler(c) ==
    CASE c = "install" -> "runInstall"
      [] c = "power-on" -> "PowerOnSystem"
      [] c = "power-off" -> "PowerOffSystem"
      [] c = "eject-media" -> "EjectVirtualMedia"
      [] c = "insert-media" -> "InsertVirtualMedia"
      [] c = "set-boot-cd" -> "SetVirtualCDBoot"
      [] c = "set-boot-cd-enhanced" -> "SetVirtualCDBootEnhanced"
      [] c = "manage-virtual-boot" -> "ManageVirtualMediaBootProcess"
      [] c = "set-boot-hdd" -> "SetHDDBoot"
      [] c = "restart" -> "RestartSystem"
      [] c = "cleanup" -> "cleanup"
      [] c = "cleanup poweroff" -> "cleanup"
      [] c = "status" -> "getStatus"

\* Variant: the cleanup command powers the system off with or without the
\* poweroff argument.
RunCleanupAlwaysPowerOff ==
    /\ At("Run")
    /\ stack' = Goto(Handler(cmd))
    /\ powerOff' = (cmd \in {"cleanup", "cleanup poweroff"})
    /\ UNCHANGED <<cmd, inputFile, etag, modTime, request, response, configFile, cfg, controller, health, err, result, sent, procs, fs, cancelled, powerState,
                   polled, attempt, polls, optIdx>>

\* The cleanup case computes powerOff from os.Args[2].
Run ==
    /\ At("Run")
    /\ stack' = Goto(Handler(cmd))
    /\ powerOff' = (cmd = "cleanup poweroff")
    /\ UNCHANGED <<cmd, inputFile, etag, modTime, request, response, configFile, cfg, controller, health, err, result, sent, procs, fs, cancelled, powerState,
                   polled, attempt, polls, optIdx>>

\* The signal goroutine of main: SIGINT/SIGTERM cancels the context.
Cancel ==
    /\ Running
    /\ ~cancelled
    /\ cancelled' = TRUE
    /\ UNCHANGED <<cmd, inputFile, etag, modTime, request, response, configFile, cfg, controller, health, stack, err, result, sent, procs, fs, powerState, polled,
                   attempt, polls, optIdx, powerOff>>

\* The configuration the operator filled in.
OperatorConfig == [DefaultConfig EXCEPT !.password = "your-password"]

\* A run from the call of application.Run on, with the operator's
\* configuration loaded.  The file system matters to install only; the
\* other commands start from a complete one.
Init ==
    /\ cmd \in Commands
    /\ inputFile = NoInput
    /\ etag = ""
    /\ modTime = NoTime
    /\ request = NoRequest
    /\ response = NoResponse
    /\ configFile = OperatorConfig
    /\ cfg = OperatorConfig
    /\ controller = "any"
    /\ health = ""
    /\ fs \in IF cmd = "install"
                THEN { i \cup w : i \in SUBSET Inputs, w \in InitialWork }
                ELSE { Inputs }
    /\ stack = <<"Run">>
    /\ err = Nil
    /\ result = NoResult
    /\ sent = <<>>
    /\ procs = <<>>
    /\ cancelled = FALSE
    /\ powerState = ""
    /\ polled = ""
    /\ attempt = 0
    /\ polls = 0
    /\ optIdx = 1
    /\ powerOff = FALSE

Next ==
    \/ Run
    \/ Cancel
    \/ runInstall
    \/ monitorInstallation
    \/ ManageVirtualMediaBootProcess
    \/ SetVirtualCDBootEnhanced
    \/ cleanup
    \/ PowerOnSystem
    \/ PowerOffSystem
    \/ WaitForSystemPowerOn
    \/ WaitForSystemPowerOff
    \/ ejectMedia
    \/ insertMedia
    \/ setBootCD
    \/ setBootHDD
    \/ restart
    \/ getStatus

Spec == Init /\ [][Next]_vars

\* A run from the start of main, over every content of idrac_config.yaml,
\* for the commands that send one request.
ConfigCommands == {"eject-media", "insert-media", "set-boot-cd", "set-boot-hdd", "restart"}

InitConfig ==
    /\ cmd \in ConfigCommands
    /\ inputFile = NoInput
    /\ etag = ""
    /\ modTime = NoTime
    /\ request = NoRequest
    /\ response = NoResponse
    /\ configFile \in Configs \cup {NoFile, Garbage}
    /\ cfg = NoConfig
    /\ controller = "any"
    /\ health = ""
    /\ fs = Inputs
    /\ stack = <<"main">>
    /\ err = Nil
    /\ result = NoResult
    /\ sent = <<>>
    /\ procs = <<>>
    /\ cancelled = FALSE
    /\ powerState = ""
    /\ polled = ""
    /\ attempt = 0
    /\ polls = 0
    /\ optIdx = 1
    /\ powerOff = FALSE

NextConfig ==
    \/ LoadConfig
    \/ Run
    \/ Cancel
    \/ ejectMedia
    \/ insertMedia
    \/ setBootCD
    \/ setBootHDD
    \/ restart

SpecConfig == InitConfig /\ [][NextConfig]_vars

\* The client operations the tests run against the mock controller, each
\* through the command that calls it, with context.Background().
MockCommands == {"install", "status", "power-on", "power-off", "restart",
                 "eject-media", "insert-media", "set-boot-cd", "set-boot-hdd",
                 "cleanup poweroff"}

InitMock ==
    /\ cmd \in MockCommands
    /\ inputFile = NoInput
    /\ etag = ""
    /\ modTime = NoTime
    /\ request = NoRequest
    /\ response = NoResponse
    /\ configFile = OperatorConfig
    /\ cfg = OperatorConfig
    /\ controller = "mock"
    /\ health = ""
    /\ fs = Inputs
    /\ stack = <<"Run">>
    /\ err = Nil
    /\ result = NoResult
    /\ sent = <<>>
    /\ procs = <<>>
    /\ cancelled = FALSE
    /\ powerState = ""
    /\ polled = ""
    /\ attempt = 0
    /\ polls = 0
    /\ optIdx = 1
    /\ powerOff = FALSE

NextMock ==
    \/ Run
    \/ RunInstallConnectivity
    \/ getStatus
    \/ PowerCheck("PowerOnSystem", "On")
    \/ PowerOffSystem
    \/ WaitForSystemPowerOff
    \/ cleanup
    \/ ejectMedia
    \/ insertMedia
    \/ setBootCD
    \/ setBootHDD
    \/ restart

SpecMock == InitMock /\ [][NextMock]_vars

Finished == ~Running

-----------------------------------------------------------------------------
(* Observations on the request and process logs.                           *)

IsReset(r) == r.target = "ComputerSystem.Reset"
IsBootAttempt(r) == r.method = "PATCH" /\ r.arg # "Hdd"
IsHddPatch(r) == r.method = "PATCH" /\ r.arg = "Hdd"
IsEject(r) == r.target = "VirtualMedia.EjectMedia"
IsInsert(r) == r.target = "VirtualMedia.InsertMedia"
IsChange(r) == r.method # "GET"
Resets == SelectSeq(sent, IsReset)
BootAttempts == SelectSeq(sent, IsBootAttempt)
Accepted(st) == st = 200 \/ st = 202
Invoked(name) == \E i \in 1..Len(procs) : procs[i].name = name
Exited(name, ok) == \E i \in 1..Len(procs) : procs[i] = Proc(name, ok)
UsesEnhanced == cmd \in {"set-boot-cd-enhanced", "manage-virtual-boot", "install"}
CtxErr == Err("context canceled", 0)
PowerOnTimeout == Err("system failed to power on within expected time", 0)
PowerOffTimeout == Err("system failed to power off within expected time", 0)

\* C1: SetVirtualCDBootEnhanced tries RemoteCd, VirtualCd, Cd in this order;
\* every attempt before the last one sent has failed (nothing is sent after a
\* 200), and the operation has returned success exactly when the last
\* attempt was answered 200.
C1_FirstSuccessWins ==
    UsesEnhanced =>
        LET a == BootAttempts IN
        /\ Len(a) <= 3
        /\ \A i \in 1..Len(a) : a[i].arg = <<"RemoteCd", "VirtualCd", "Cd">>[i]
        /\ \A i \in 1..(Len(a) - 1) : a[i].status # 200
        /\ (Len(a) > 0 /\ a[Len(a)].status = 200) =>
              /\ ~At("SetVirtualCDBootEnhanced:loop")
              /\ At("ManageVirtualMediaBootProcess:setboot") => err = Nil
              /\ (cmd = "set-boot-cd-enhanced") => result = Nil
        /\ (cmd = "set-boot-cd-enhanced" /\ Finished) =>
              (result = Nil <=> (Len(a) > 0 /\ a[Len(a)].status = 200))

\* Two failures (a transport error, then a non-success status), then success.
C1_Witness ==
    /\ cmd = "set-boot-cd-enhanced"
    /\ Finished
    /\ result = Nil
    /\ Len(BootAttempts) = 3
    /\ BootAttempts[1].status = NetErr
    /\ BootAttempts[2].status = 202
    /\ BootAttempts[3] = BootPatch("Cd", 200)

\* C2: PowerOnSystem that reads "On", and PowerOffSystem that reads "Off",
\* return success having sent nothing but that one status read: no Reset
\* request and no poll.
C2_NoResetWhenAlreadyThere ==
    /\ (cmd = "power-on" /\ Finished /\ powerState = "On") =>
          result = Nil /\ sent = <<SystemGet>> /\ polls = 0
    /\ (cmd = "power-off" /\ Finished /\ powerState = "Off") =>
          result = Nil /\ sent = <<SystemGet>> /\ polls = 0
    /\ (cmd = "cleanup poweroff" /\ powerState = "Off") =>
          Len(Resets) = 0 /\ polls = 0 /\ (At("cleanup:poweroff") => err = Nil)

C2_Witness ==
    /\ cmd = "power-off"
    /\ Finished
    /\ powerState = "Off"
    /\ result = Nil

InWaitOn == Running /\ Top \in {"WaitForSystemPowerOn", "WaitForSystemPowerOn:read"}
InWaitOff == Running /\ Top \in {"WaitForSystemPowerOff", "WaitForSystemPowerOff:read"}
ResetAccepted == Len(Resets) = 1 /\ Accepted(Resets[1].status)
WaitOnReturned == cmd = "power-on" /\ Finished /\ ResetAccepted
WaitOffReturned ==
    \/ cmd = "power-off" /\ Finished /\ ResetAccepted
    \/ cmd = "cleanup poweroff" /\ At("cleanup:poweroff") /\ ResetAccepted

\* C4: a polling loop never issues more than 30 reads, keeps running only
\* while no read has matched, returns success exactly on a matching read,
\* and returns the timeout error exactly when 30 reads were made without a
\* match.
C4_PollBound ==
    /\ polls <= 30
    /\ (InWaitOn /\ polls > 0) => polled # "On"
    /\ (InWaitOff /\ polls > 0) => polled # "Off"
    /\ WaitOnReturned =>
          /\ err = Nil <=> (polls >= 1 /\ polled = "On")
          /\ err = PowerOnTimeout <=> (polls = 30 /\ polled # "On")
    /\ WaitOffReturned =>
          /\ err = Nil <=> (polls >= 1 /\ polled = "Off")
          /\ err = PowerOffTimeout <=> (polls = 30 /\ polled # "Off")

\* Thirty reads, none of them "Off": the timeout error, not earlier.
C4_Witness ==
    /\ WaitOffReturned
    /\ polls = 30
    /\ polled = "On"
    /\ err = PowerOffTimeout

\* The install run got an answer from the controller: CheckConnectivity passed.
ReachedController == cmd = "install" /\ Len(sent) >= 3
CleanupAttempted ==
    \E i, j \in 1..Len(sent) : i < j /\ IsEject(sent[i]) /\ IsHddPatch(sent[j])
Failed == Finished /\ result # Nil

\* C5 as stated: every install run that reached the controller and has
\* ended, failed or not, has attempted cleanup (an eject, then the Hdd boot
\* target).
C5_CleanupOnEveryRun ==
    (ReachedController /\ Finished) => CleanupAttempted

\* C6 as stated: when the image is missing at the transfer step the run goes
\* on to the boot-media sequence, and does not end with the missing image as
\* its failure.
C6_MissingImageContinues ==
    (cmd = "install" /\ Exited("agent create image", TRUE) /\ ISOFilePath \notin fs
        /\ ~At("runInstall:copyiso")) =>
        /\ \E i \in 1..Len(sent) : IsEject(sent[i])
        /\ result.kind # "ISO file not found"

RestartIdx == CHOOSE i \in 1..Len(sent) : IsReset(sent[i]) /\ sent[i].arg = "ForceRestart"
Restarted == \E i \in 1..Len(sent) : IsReset(sent[i]) /\ sent[i].arg = "ForceRestart"
ReadsAfterRestart ==
    IF Restarted THEN Cardinality({ j \in (RestartIdx + 1)..Len(sent) : sent[j] = SystemGet })
    ELSE 0
\* The boot-media sequence has returned success to its caller.
ManageSucceeded ==
    \/ cmd = "manage-virtual-boot" /\ Finished /\ result = Nil
    \/ cmd = "install" /\ At("runInstall:managed") /\ err = Nil

\* C7 as stated: a boot-media sequence that reports success has read the
\* power state after its restart request.
C7_PollsAfterRestart ==
    ManageSucceeded => ReadsAfterRestart >= 1

\* C7 amended: the boot-media sequence reports success right after the
\* accepted restart request, which is the last request it sends: it reads no
\* power state and runs no polling loop.  In the install run the only
\* power-state read after the restart is the single read of
\* monitorInstallation.
C7_NoPollAfterRestart ==
    /\ ManageSucceeded =>
          /\ Restarted
          /\ RestartIdx = Len(sent)
          /\ Accepted(sent[RestartIdx].status)
          /\ ReadsAfterRestart = 0
    /\ cmd \in {"manage-virtual-boot", "install"} =>
          /\ polls = 0
          /\ ReadsAfterRestart <= 1
          /\ (ReadsAfterRestart = 1) =>
                cmd = "install" /\ sent[RestartIdx + 1] = SystemGet
                    /\ ~At("monitorInstallation")

C7_Witness ==
    /\ cmd = "install"
    /\ Finished
    /\ result = Nil
    /\ Restarted
    /\ ReadsAfterRestart = 1
    /\ CleanupAttempted

WaitFailure == Wrap("installation wait failed", Err("exec", 0))

Monitored ==
    cmd = "install" /\ Restarted /\ ReadsAfterRestart = 1 /\ ~At("monitorInstallation")

\* C9: the installer's wait operation is invoked only after a power-state
\* read, made after the boot-media sequence, that returned "On"; after a
\* failed read or any other state the wait is not invoked and
\* monitorInstallation returns success.
C9_WaitOnlyWhenOn ==
    /\ Invoked("agent wait-for install-complete") => (Monitored /\ powerState = "On")
    /\ At("monitorInstallation:wait") => (Monitored /\ powerState = "On")
    /\ (Monitored /\ powerState # "On") =>
          /\ ~Invoked("agent wait-for install-complete")
          /\ At("runInstall:monitored") => err = Nil
          /\ Finished => result = Nil

\* The read failed: the wait is skipped and the run goes on to cleanup.
C9_Witness ==
    /\ At("runInstall:monitored")
    /\ powerState = ""
    /\ err = Nil
    /\ ~Invoked("agent wait-for install-complete")

Required == {SrcOpenshift, SrcAgentConfig, SrcInstallConfig}
Staged == cmd = "install" /\ Exited("oc adm release extract", TRUE)
                /\ ~At("runInstall:prepare")

\* C10: with the openshift directory, agent-config.yaml or
\* install-config.yaml missing from the source location, PrepareWorkDir
\* returns an error, the run ends with it, and neither the image creation
\* nor any later step (transfer, any request that changes the controller,
\* the wait) is attempted.
C10_MissingConfigAborts ==
    (cmd = "install" /\ ~(Required \subseteq fs)) =>
        /\ ~Invoked("agent create image")
        /\ ~Invoked("scp")
        /\ ~Invoked("agent wait-for install-complete")
        /\ \A i \in 1..Len(sent) : ~IsChange(sent[i])
        /\ Staged =>
              /\ Finished
              /\ result # Nil
              /\ result.ctxt[1] = "failed to prepare work directory"

\* install-config.yaml is missing: the directory and agent-config.yaml were
\* copied, then the run stopped.
C10_Witness ==
    /\ Staged
    /\ SrcInstallConfig \notin fs
    /\ WorkAgentConfig \in fs
    /\ result = Wrap("failed to prepare work directory",
                     Wrap("failed to copy configuration files",
                          Err("configuration file not found", 0)))

-----------------------------------------------------------------------------
(* Failure handling of the boot-media sequence, cleanup and install order. *)

InCtxt(e, msg) == \E k \in 1..Len(e.ctxt) : e.ctxt[k] = msg
InsertFailed == \E i \in 1..Len(sent) : IsInsert(sent[i]) /\ ~Accepted(sent[i].status)
RunsManage == cmd \in {"manage-virtual-boot", "install"}

\* C11: in the boot-media sequence an insert request that fails (transport
\* error, or a status other than 200/202) makes the sequence return an error
\* that names the insert, and no boot-target request and no reset request
\* follows it.
C11_InsertFailureStops ==
    RunsManage =>
        \A i \in 1..Len(sent) :
            (IsInsert(sent[i]) /\ ~Accepted(sent[i].status)) =>
                /\ \A j \in (i + 1)..Len(sent) :
                       ~IsBootAttempt(sent[j]) /\ ~IsReset(sent[j])
                /\ InCtxt(IF Running THEN err ELSE result,
                          "failed to insert virtual media")
                /\ (IF Running THEN err ELSE result) # Nil

\* An install run whose insert request was answered with 500: the run ended
\* there with the insert failure, after a successful transfer.
C11_Witness ==
    /\ cmd = "install"
    /\ Finished
    /\ Exited("scp", TRUE)
    /\ IsInsert(sent[Len(sent)])
    /\ sent[Len(sent)].status = 500
    /\ InCtxt(result, "failed to insert virtual media")

AllBootFailed ==
    /\ Len(BootAttempts) = 3
    /\ \A i \in 1..Len(BootAttempts) : BootAttempts[i].status # StatusOK
BootError == Err("failed to set boot device to Virtual CD/DVD with any supported option", 0)

\* C12: SetVirtualCDBootEnhanced never makes more than three attempts; when
\* RemoteCd, VirtualCd and Cd have all failed it returns its error (after
\* exactly these three attempts), and the enclosing sequence ends with that
\* error without ever sending the forced restart.
C12_AllTargetsFailAborts ==
    UsesEnhanced =>
        /\ Len(BootAttempts) <= 3
        /\ (IF Running THEN err ELSE result).kind = BootError.kind
              => AllBootFailed
        /\ AllBootFailed =>
              /\ [ i \in 1..3 |-> BootAttempts[i].arg ] = <<"RemoteCd", "VirtualCd", "Cd">>
              /\ \A i \in 1..Len(sent) : ~IsReset(sent[i])
              /\ ~At("SetVirtualCDBootEnhanced:loop") =>
                    (IF Running THEN err ELSE result).kind = BootError.kind

\* The boot-media command ended after three refused boot-target requests
\* (one of them answered 202), with the wrapped error and no reset.
C12_Witness ==
    /\ cmd = "manage-virtual-boot"
    /\ Finished
    /\ AllBootFailed
    /\ BootAttempts[2].status = StatusAccepted
    /\ result = Wrap("failed to set boot device to virtual CD/DVD", BootError)
    /\ \A i \in 1..Len(sent) : ~IsReset(sent[i])

CleanupCmd == cmd \in {"cleanup", "cleanup poweroff"}
\* Position of the first Hdd boot-target request (cleanup's second request).
HddIdx == CHOOSE i \in 1..Len(sent) : IsHddPatch(sent[i])
CleanupRequestsFailed ==
    /\ \E i \in 1..Len(sent) : IsHddPatch(sent[i])
    /\ \A j \in (HddIdx - 1)..Len(sent) :
           IsChange(sent[j]) => ~Accepted(sent[j].status)

\* C13: cleanup returns success whatever its requests came back with: the
\* cleanup command always ends with nil; the Hdd boot target is sent after
\* the eject whether or not the eject succeeded; and an install run that
\* reached cleanup ends with nil.
C13_CleanupNeverFails ==
    /\ (CleanupCmd /\ Finished) => result = Nil
    /\ (CleanupCmd /\ ~At("Run") /\ ~At("cleanup") /\ ~At("cleanup:hdd")) =>
           /\ Len(sent) >= 2
           /\ IsEject(sent[1])
           /\ IsHddPatch(sent[2])
    /\ (cmd = "install" /\ Finished /\ \E i \in 1..Len(sent) : IsHddPatch(sent[i]))
           => result = Nil

\* An install run whose steps all succeeded and whose cleanup requests (the
\* eject and the Hdd boot target) both failed: the run is reported successful.
C13_Witness ==
    /\ cmd = "install"
    /\ Finished
    /\ result = Nil
    /\ CleanupRequestsFailed
    /\ IsEject(sent[HddIdx - 1])
    /\ sent[HddIdx - 1].status = 500
    /\ sent[HddIdx].status = NetErr

IsForceOff(r) == IsReset(r) /\ r.arg = "ForceOff"

\* C14: a ForceOff reset is sent by cleanup only when the command line is
\* "cleanup poweroff"; the install run calls cleanup with powerOff = false
\* and the plain cleanup command does too, so neither ever sends ForceOff.
C14_PowerOffOnlyOnRequest ==
    /\ (\E i \in 1..Len(sent) : IsForceOff(sent[i]))
           => cmd \in {"cleanup poweroff", "power-off"}
    /\ cmd \in {"install", "cleanup"} => ~powerOff
    /\ powerOff => cmd = "cleanup poweroff"

\* An install run that went through cleanup (both requests accepted) and
\* ended: no ForceOff was sent.
C14_Witness ==
    /\ cmd = "install"
    /\ Finished
    /\ result = Nil
    /\ IsHddPatch(sent[Len(sent)])
    /\ sent[Len(sent)].status = StatusOK
    /\ \A i \in 1..Len(sent) : ~IsForceOff(sent[i])

\* The steps of runInstall that run external processes, by the process.
StepOf(name) ==
    CASE name = "ssh-keygen" -> 1
      [] name = "ssh-copy-id" -> 2
      [] name \in {"oc adm release info", "oc adm release extract"} -> 3
      [] name \in {"cp -r openshift", "cp"} -> 4
      [] name = "agent create image" -> 5
      [] name = "scp" -> 6
      [] name = "agent wait-for install-complete" -> 8
FirstFive == {"failed to check SSH key", "failed to setup SSH key",
              "failed to extract installer", "failed to prepare work directory",
              "failed to create agent image"}
StepFailed(k) ==
    /\ Finished
    /\ Len(result.ctxt) > 0
    /\ result.ctxt[1] =
         <<"failed to check SSH key", "failed to setup SSH key",
           "failed to extract installer", "failed to prepare work directory",
           "failed to create agent image">>[k]

-----------------------------------------------------------------------------
(* Cancellation.                                                           *)

\* Requests and processes started by the step being taken.
NewSent == SubSeq(sent', Len(sent) + 1, Len(sent'))
NewProcs == SubSeq(procs', Len(procs) + 1, Len(procs'))

\* C16 as stated: once the context is cancelled, every request that changes
\* the controller and every external process started afterwards aborts:
\* the request comes back with a transport error and the process (the cp
\* copies of the staging step included) does not exit 0.
C16_CancelAbortsAll ==
    [][cancelled =>
          /\ \A i \in 1..Len(NewSent) :
                 IsChange(NewSent[i]) => NewSent[i].status = NetErr
          /\ \A i \in 1..Len(NewProcs) : ~NewProcs[i].ok]_vars

-----------------------------------------------------------------------------
(* Configuration validation.                                               *)

\* main is past LoadConfig.
Loaded == ~At("main")
ConfigAccepted == cfg # NoConfig
\* The fields the claim names, and the fields Validate looks at.
ClaimedFields(c) ==
    c.ip # "" /\ c.username # "" /\ c.password # "" /\ c.host # "" /\ c.path # ""
RequiredFields(c) ==
    /\ c.ip # "" /\ c.username # "" /\ c.password # ""
    /\ c.version # "" /\ c.cluster_name # ""
    /\ c.host # "" /\ c.user # ""

-----------------------------------------------------------------------------
(* The client against the mock controller of its tests.                    *)

\* C18 as stated: against the mock controller, whose system resource
\* carries Status: {Health: "OK"}, the health GetSystemHealth returns (the
\* one the status command logs) is "OK".
C18_HealthFromStatus ==
    (controller = "mock" /\ cmd = "status" /\ Finished /\ result = Nil) =>
        health = MockBody.StatusHealth

\* C19 as stated: the mock controller answers the system GET with 200 and
\* a well-formed system-information body, so CheckConnectivity returns
\* success: the install run does not end with the connectivity failure.
C19_MockConnectivity ==
    (controller = "mock" /\ cmd = "install" /\ ~At("Run") /\ ~At("runInstall")) =>
        ~InCtxt(result, "iDRAC connectivity check failed")

\* C20 as stated: against the mock controller (every Reset answered 200,
\* every status read "On") PowerOnSystem, PowerOffSystem and RestartSystem
\* return without error.
C20_PowerOpsSucceed ==
    (controller = "mock" /\ cmd \in {"power-on", "power-off", "restart"} /\ Finished) =>
        result = Nil

-----------------------------------------------------------------------------
(* set-boot-cd against set-boot-cd-enhanced.                               *)

\* C21 as stated: set-boot-cd behaves as set-boot-cd-enhanced does: under
\* either command the boot-target values sent are RemoteCd, VirtualCd, Cd
\* in this order, nothing is sent after an attempt answered 200, and the
\* command ends with nil exactly when its last attempt was answered 200,
\* otherwise with the error of the enhanced operation.
C21_SetBootCdIsEnhanced ==
    cmd \in {"set-boot-cd", "set-boot-cd-enhanced"} =>
        /\ Len(BootAttempts) <= 3
        /\ \A i \in 1..Len(BootAttempts) :
               /\ BootAttempts[i].arg = <<"RemoteCd", "VirtualCd", "Cd">>[i]
               /\ i < Len(BootAttempts) => BootAttempts[i].status # StatusOK
        /\ Finished =>
               /\ Len(BootAttempts) >= 1
               /\ IF BootAttempts[Len(BootAttempts)].status = StatusOK
                    THEN result = Nil
                    ELSE result = BootError

-----------------------------------------------------------------------------
(* The file server.                                                        *)

\* A step in which the server answers a request (the file is untouched).
Handling == At("ListenAndServe") /\ inputFile' = inputFile

-----------------------------------------------------------------------------
(* Requests per client operation.                                          *)

\* The commands that are one call of a client operation.
OneCallCommands == {"power-on", "power-off", "restart", "set-boot-cd",
                    "set-boot-cd-enhanced", "set-boot-hdd", "eject-media",
                    "insert-media"}
SingleRequestCommands == {"restart", "set-boot-cd", "set-boot-hdd", "eject-media",
                          "insert-media"}
Gets == SelectSeq(sent, LAMBDA r : r.method = "GET")

\* C23 as stated: every client operation sends exactly one request per
\* call: a command that is one call has sent one request when it ends, and
\* the status command (a status read, then a health read) at most two.
C23_Original ==
    /\ (cmd \in OneCallCommands /\ Finished) => Len(sent) = 1
    /\ (cmd = "status" /\ Finished) => Len(sent) <= 2

\* C23: eject, insert, restart, SetVirtualCDBoot, SetHDDBoot, the status
\* read and the health read send exactly one request per call.
\* PowerOnSystem and PowerOffSystem send one status read and nothing more
\* when the read fails or the system is already in the target state;
\* otherwise one Reset and, if it is accepted, the status reads of the
\* polling loop, at most 30 of them.  SetVirtualCDBootEnhanced sends one
\* media-information GET and then one to three boot-target requests, three
\* whenever it fails.
C23_RequestsPerOperation ==
    /\ (cmd \in SingleRequestCommands /\ Finished) => Len(sent) = 1
    /\ (cmd = "status" /\ Finished) =>
           Len(sent) = (IF InCtxt(result, "failed to get power state") THEN 1 ELSE 2)
    /\ (cmd \in {"power-on", "power-off"} /\ Finished) =>
           /\ Len(Resets) <= 1
           /\ Len(Resets) = 0 => Len(sent) = 1
           /\ Len(Resets) = 1 =>
                 /\ IsReset(sent[2])
                 /\ Len(sent) = 2 + polls
                 /\ polls <= 30
                 /\ ~Accepted(sent[2].status) => polls = 0
    /\ (cmd = "set-boot-cd-enhanced" /\ Finished) =>
           /\ Len(Gets) = 1
           /\ Len(sent) = 1 + Len(BootAttempts)
           /\ Len(BootAttempts) \in 1..3
           /\ result # Nil => Len(BootAttempts) = 3

\* PowerOnSystem sent a status read, a Reset and three polls, and
\* succeeded: five requests in one call.
C23_Witness ==
    /\ cmd = "power-on"
    /\ Finished
    /\ result = Nil
    /\ polls = 3
    /\ Len(sent) = 5

-----------------------------------------------------------------------------
(* The eject step of the boot-media sequence.                              *)

\* The result the sequence must have, from the requests after the eject.
LastSent == sent[Len(sent)]
ManageExpected ==
    IF ~Accepted(sent[2].status)
      THEN Wrap("failed to insert virtual media", InsertVirtualMedia(sent[2].status))
    ELSE IF AllBootFailed
      THEN Wrap("failed to set boot device to virtual CD/DVD", BootError)
    ELSE IF ~Accepted(LastSent.status)
      THEN Wrap("failed to restart system", RestartSystem(LastSent.status))
    ELSE Nil

\* C24: in the boot-media sequence the insert request (with the image URL)
\* follows the eject request whatever the eject came back with, and the
\* result of the sequence is determined by the insert, boot-target and
\* restart outcomes alone: it never carries the eject failure.
C24_EjectNonFatal ==
    /\ RunsManage =>
          \A i \in 1..Len(sent) :
              IsInsert(sent[i]) => (i > 1 /\ IsEject(sent[i - 1]) /\ sent[i].arg = "isoURL")
    /\ cmd = "manage-virtual-boot" =>
          /\ Len(sent) >= 1 => IsEject(sent[1])
          /\ (~At("Run") /\ ~At("ManageVirtualMediaBootProcess")
                /\ ~At("ManageVirtualMediaBootProcess:insert")) =>
                 Len(sent) >= 2 /\ IsInsert(sent[2])
          /\ Finished => result = ManageExpected

\* The eject was refused (500) and the sequence still succeeded.
C24_Witness ==
    /\ cmd = "manage-virtual-boot"
    /\ Finished
    /\ result = Nil
    /\ sent[1].status = 500
    /\ Accepted(sent[2].status)
    /\ IsReset(LastSent)

-----------------------------------------------------------------------------
(* The cause carried by the error of a failed run.                         *)

ManageStepMessages == {"failed to insert virtual media",
                       "failed to set boot device to virtual CD/DVD",
                       "failed to restart system"}
\* The run ended with the failure of a fatal step of the boot-media sequence.
ManageStepFailed ==
    /\ RunsManage
    /\ Finished
    /\ \E msg \in ManageStepMessages : InCtxt(result, msg)

\* C25 as stated: when a fatal step of the boot-media sequence (insert,
\* boot target, restart) fails, the error the run ends with carries the
\* originating cause: the transport error, or the status code some request
\* of that step was answered with.
C25_CauseAttached ==
    ManageStepFailed =>
        /\ result.kind \in {"transport", "status"}
        /\ result.kind = "status" =>
              \E i \in 1..Len(sent) : IsChange(sent[i]) /\ sent[i].status = result.code

-----------------------------------------------------------------------------
(* No rollback in the boot-media sequence.                                 *)

\* Index of the insert request of the run (there is at most one).
InsertIdx == CHOOSE i \in 1..Len(sent) : IsInsert(sent[i])
InsertAccepted ==
    /\ \E i \in 1..Len(sent) : IsInsert(sent[i])
    /\ Accepted(sent[InsertIdx].status)
\* The sequence failed at the boot-target step or at the restart step.
LateStepFailed ==
    /\ Finished
    /\ \/ InCtxt(result, "failed to set boot device to virtual CD/DVD")
       \/ InCtxt(result, "failed to restart system")
\* Virtual-media and boot-override state as the accepted requests leave it.
LastMediaIdx ==
    CHOOSE i \in 1..Len(sent) :
        /\ (IsInsert(sent[i]) \/ IsEject(sent[i])) /\ Accepted(sent[i].status)
        /\ \A j \in (i + 1)..Len(sent) :
               ~((IsInsert(sent[j]) \/ IsEject(sent[j])) /\ Accepted(sent[j].status))

\* C26: after an accepted insert, the boot-media sequence sends nothing but
\* boot-target requests and the forced restart (and the media-information
\* read): when the boot-target step or the restart step fails, no eject,
\* no insert and no Hdd boot target follows, in the boot-media command and
\* in the install run alike, so that the last accepted media request is
\* still the insert and a boot-target request answered 200 is not undone.
C26_NoRollback ==
    (RunsManage /\ InsertAccepted) =>
        /\ cmd = "manage-virtual-boot" =>
              \A j \in (InsertIdx + 1)..Len(sent) :
                  IsChange(sent[j]) =>
                      \/ IsBootAttempt(sent[j])
                      \/ IsReset(sent[j]) /\ sent[j].arg = "ForceRestart"
        /\ LateStepFailed =>
              /\ \A j \in (InsertIdx + 1)..Len(sent) :
                     IsChange(sent[j]) =>
                         \/ IsBootAttempt(sent[j])
                         \/ IsReset(sent[j]) /\ sent[j].arg = "ForceRestart"
              /\ LastMediaIdx = InsertIdx

\* An install run: insert accepted, RemoteCd answered 200, the restart
\* refused; the run ended with nothing sent after the restart.
C26_Witness ==
    /\ cmd = "install"
    /\ InsertAccepted
    /\ Finished
    /\ InCtxt(result, "failed to restart system")
    /\ BootAttempts = <<BootPatch("RemoteCd", StatusOK)>>
    /\ LastSent = ResetPost("ForceRestart", 500)

-----------------------------------------------------------------------------
(* Cancellation and failed reads in the polling loops.                     *)

InWaitHead == Running /\ Top \in {"WaitForSystemPowerOn", "WaitForSystemPowerOff"}
InWaitRead == Running /\ Top \in {"WaitForSystemPowerOn:read", "WaitForSystemPowerOff:read"}
WaitTimeout ==
    IF Top = "WaitForSystemPowerOn" THEN PowerOnTimeout ELSE PowerOffTimeout

\* C27 as stated: with the context cancelled, a polling loop at the start
\* of an iteration returns the cancellation error, and a read still made
\* after the cancellation does not succeed.
C27_Original ==
    [][cancelled =>
          /\ InWaitHead => (stack' = Pop /\ err' = CtxErr)
          /\ InWaitRead => (stack' # Pop /\ polls' = polls + 1)]_vars

\* C27: with the context cancelled, a read the loop still makes fails and
\* is counted (one further read at most, the loop is at its head after
\* it), and the loop at its head returns: the cancellation error while
\* attempts are left, the timeout error when the cancellation came during
\* the last (30th) iteration.  It never returns success.
C27_CancelEndsPolling ==
    [][cancelled =>
          /\ InWaitHead =>
                /\ stack' = Pop
                /\ err' = IF attempt < 30 THEN CtxErr ELSE WaitTimeout
          /\ InWaitRead =>
                /\ stack' = Goto(IF Top = "WaitForSystemPowerOn:read"
                                   THEN "WaitForSystemPowerOn"
                                   ELSE "WaitForSystemPowerOff")
                /\ polls' = polls + 1
                /\ attempt' = attempt + 1]_vars

\* PowerOnSystem was cancelled after two reads: the cancellation error.
C27_Witness ==
    /\ cmd = "power-on"
    /\ cancelled
    /\ Finished
    /\ ResetAccepted
    /\ polls = 2
    /\ result = CtxErr

\* C28: in the polling loops every read that does not end the loop,
\* failed or not, is counted as one attempt; the loop never returns the
\* error of a read (transport, status or parse error), only success, the
\* cancellation error or the timeout error, and the timeout error only
\* after exactly 30 reads.
C28_FailedReadsCounted ==
    /\ (InWaitOn \/ InWaitOff) =>
          /\ attempt = polls
          /\ attempt <= 30
    /\ (WaitOnReturned \/ WaitOffReturned) =>
          /\ err \in {Nil, CtxErr, PowerOnTimeout, PowerOffTimeout}
          /\ err.kind \notin {"transport", "status", "parse"}
          /\ err \in {PowerOnTimeout, PowerOffTimeout} => (polls = 30 /\ attempt = 30)
          /\ err = Nil => polls = attempt + 1

\* Thirty reads, the last one failed (no state read), no cancellation: the
\* loop ended with the timeout error.
C28_Witness ==
    /\ cmd = "power-on"
    /\ Finished
    /\ ~cancelled
    /\ ResetAccepted
    /\ polls = 30
    /\ polled = ""
    /\ result = PowerOnTimeout

-----------------------------------------------------------------------------
(* Status codes accepted by the boot-target requests.                      *)

\* C29: a boot-target request succeeds only on status 200.  SetVirtualCDBoot
\* and SetHDDBoot return nil exactly on 200 and the status error on any
\* other answer (202 and 204 included); SetVirtualCDBootEnhanced goes on to
\* the next value after any answer other than 200 and returns nil exactly
\* when its last attempt was answered 200.  Eject, insert and restart
\* return nil exactly on 200 and 202.
C29_BootTargetOnly200 ==
    /\ (cmd \in {"set-boot-cd", "set-boot-hdd"} /\ Finished) =>
          /\ result = Nil <=> sent[1].status = StatusOK
          /\ sent[1].status \in {StatusAccepted, 204, 500} =>
                 result = Err("status", sent[1].status)
    /\ cmd = "set-boot-cd-enhanced" =>
          /\ (Len(BootAttempts) \in 1..2
                /\ BootAttempts[Len(BootAttempts)].status # StatusOK) =>
                 At("SetVirtualCDBootEnhanced:loop")
          /\ Finished =>
                 (result = Nil <=> BootAttempts[Len(BootAttempts)].status = StatusOK)
    /\ (cmd \in {"eject-media", "insert-media", "restart"} /\ Finished) =>
          (result = Nil <=> sent[1].status \in {StatusOK, StatusAccepted})

\* The enhanced operation went past a 202 and a 204 and succeeded on the
\* 200 of the third value.
C29_Witness ==
    /\ cmd = "set-boot-cd-enhanced"
    /\ Finished
    /\ result = Nil
    /\ BootAttempts = <<BootPatch("RemoteCd", StatusAccepted), BootPatch("VirtualCd", 204),
                        BootPatch("Cd", StatusOK)>>

-----------------------------------------------------------------------------
(* The workspace after PrepareWorkDir.                                     *)

WorkNow == fs \cap ({WorkDir} \cup WorkContents)
MissingFileKinds == {"source openshift directory not found", "configuration file not found"}
\* PrepareWorkDir has just returned nil to runInstall.
PrepareSucceeded == cmd = "install" /\ At("runInstall:create")
\* The run ended in PrepareWorkDir on a missing source.
PrepareMissingFile ==
    /\ cmd = "install"
    /\ Finished
    /\ InCtxt(result, "failed to prepare work directory")
    /\ result.kind \in MissingFileKinds

\* C30: when PrepareWorkDir has returned nil the work directory holds
\* exactly the copied openshift directory, agent-config.yaml and
\* install-config.yaml; when it has returned a missing-file error the work
\* directory holds only what this run copied before the missing file.  In
\* both cases the image and the state file of a previous run are gone.
C30_WorkspaceFresh ==
    /\ PrepareSucceeded =>
          WorkNow = {WorkDir, WorkOpenshift, WorkAgentConfig, WorkInstallConfig}
    /\ PrepareMissingFile =>
          /\ WorkStale \notin fs
          /\ ISOFilePath \notin fs
          /\ WorkOpenshift \in fs => Exited("cp -r openshift", TRUE)
          /\ WorkAgentConfig \in fs => Exited("cp", TRUE)
          /\ WorkInstallConfig \notin fs
          /\ WorkDir \in fs

\* install-config.yaml is missing from the source: the work directory
\* holds the two freshly made copies and nothing else.
C30_Witness ==
    /\ PrepareMissingFile
    /\ SrcInstallConfig \notin fs
    /\ WorkNow = {WorkDir, WorkOpenshift, WorkAgentConfig}

====
